---------------------------- MODULE Spec2Model ----------------------------
(***************************************************************************)
(* rewind: the History event store and its phase-ordered replay            *)
(* (rwn_history_* of history.c, the revision with phases and threads).     *)
(*                                                                         *)
(* A History is a hash map timepoint -> singly linked list of              *)
(* EventListEntry (kept sorted by phase) plus a flat list of the issued    *)
(* RwnEventHandle.  The management operations run to completion on the     *)
(* caller's thread; rwn_history_state_delta with max_threads > 0 creates   *)
(* worker threads and is therefore modelled step by step.                  *)
(***************************************************************************)
EXTENDS Integers, Sequences, FiniteSets, TLC

(* ------------------------------ bounds -------------------------------- *)
\* timepoints used by the callers: -1 (invalid) and 0..MaxTimepoint
MaxTimepoint == 1
\* phases used by the callers: 0..MaxPhase
MaxPhase == 1
\* number of successful rwn_history_schedule() calls in one run
MaxEvents == 3
\* largest max_threads handed to rwn_history_state_delta
MaxThreads == 2
\* how far the cursor of the earlier revision is stepped beyond -1 and beyond
\* the largest timepoint
CursorSpan == 1

\* the null pointer
NULL == 0

VARIABLES
  timepoint_hash_map,  \* h->timepoint_hash_map: present timepoint -> event_list
  event_handle_list,   \* h->event_handle_list: sequence of RwnEventHandle
  alive,               \* FALSE once rwn_history_destroy(h) has freed h
  freed,               \* addresses of EventListEntry storage given back to free()
  consumed,            \* the handles rwn_history_unschedule has freed
  h_timepoint,         \* h->timepoint, the cursor of the earlier revision
  nscheduled,          \* number of successful schedule() calls so far
  sched_count,         \* per timepoint: successful schedule() calls
  removed_count,       \* per timepoint: rwn_history_unschedule() calls completed
  destroy_calls,       \* per record: invocations of its user_event_destroy_func
  apply_log,           \* records whose apply func completed during the last call
  call,                \* the last public call: its name, arguments and result
  pre,                 \* the History as it was when the last public call was made
  sd                   \* the frame of the running rwn_history_state_delta

vars == <<timepoint_hash_map, event_handle_list, alive, freed, consumed,
          h_timepoint, nscheduled,
          sched_count, removed_count, destroy_calls, apply_log, call, pre,
          sd>>

history == <<timepoint_hash_map, event_handle_list, alive, freed, consumed,
             h_timepoint>>
counters == <<nscheduled, sched_count, removed_count>>

Timepoints == 0..MaxTimepoint
TimepointArgs == -1..MaxTimepoint
Phases == 0..MaxPhase
EventIds == 1..MaxEvents
ThreadArgs == -1..MaxThreads

(* ------------------------- sequence helpers --------------------------- *)
RECURSIVE SeqSum(_)
SeqSum(s) == IF s = <<>> THEN 0 ELSE Head(s) + SeqSum(Tail(s))

Range(s) == {s[n] : n \in 1..Len(s)}

\* a delete that cuts the list off at the element
RECURSIVE LL_DELETE_Truncating(_, _)
LL_DELETE_Truncating(list, x) ==
  IF list = <<>> THEN <<>>
  ELSE IF Head(list) = x THEN <<>>
  ELSE <<Head(list)>> \o LL_DELETE_Truncating(Tail(list), x)

\* utlist LL_DELETE: unlink the element `x` (the first one equal to it)
RECURSIVE LL_DELETE(_, _)
LL_DELETE(list, x) ==
  IF list = <<>> THEN <<>>
  ELSE IF Head(list) = x THEN Tail(list)
  ELSE <<Head(list)>> \o LL_DELETE(Tail(list), x)

\* utlist LL_COUNT
LL_COUNT(list) == Len(list)

\* the comparison with its two results swapped
cmp_reversed(lhs, rhs) ==
  IF lhs.phase < rhs.phase THEN 1
  ELSE IF lhs.phase > rhs.phase THEN -1
  ELSE 0

(* cmp_event_list_entries_by_phase: -1, 0 or 1 *)
cmp_event_list_entries_by_phase(lhs, rhs) ==
  IF lhs.phase < rhs.phase THEN -1
  ELSE IF lhs.phase > rhs.phase THEN 1
  ELSE 0

\* a merge that takes the element of the right run when the two compare equal
RECURSIVE LL_MERGE_Unstable(_, _)
LL_MERGE_Unstable(p, q) ==
  IF p = <<>> THEN q
  ELSE IF q = <<>> THEN p
  ELSE IF cmp_event_list_entries_by_phase(Head(p), Head(q)) < 0
       THEN <<Head(p)>> \o LL_MERGE_Unstable(Tail(p), q)
       ELSE <<Head(q)>> \o LL_MERGE_Unstable(p, Tail(q))

\* the merge step of utlist's LL_SORT: the element of the left run is taken
\* when cmp(left, right) <= 0
RECURSIVE LL_MERGE(_, _)
LL_MERGE(p, q) ==
  IF p = <<>> THEN q
  ELSE IF q = <<>> THEN p
  ELSE IF cmp_event_list_entries_by_phase(Head(p), Head(q)) <= 0
       THEN <<Head(p)>> \o LL_MERGE(Tail(p), q)
       ELSE <<Head(q)>> \o LL_MERGE(p, Tail(q))

\* a sort that leaves the list as it is
LL_SORT_NoSort(list) == list

\* utlist LL_SORT (a merge sort of the linked list; entries that compare equal
\* keep their order)
RECURSIVE LL_SORT(_)
LL_SORT(list) ==
  IF Len(list) <= 1 THEN list
  ELSE LET half == Len(list) \div 2
       IN  LL_MERGE(LL_SORT(SubSeq(list, 1, half)),
                    LL_SORT(SubSeq(list, half + 1, Len(list))))

(* ------------------------------- state -------------------------------- *)
\* HASH_FIND_INT: is there a TimepointHashMapEntry for timepoint t
HASH_FIND_INT(map, t) == t \in DOMAIN map

\* HASH_ADD_INT / assignment of an entry's event_list
MapPut(map, t, list) ==
  [x \in (DOMAIN map) \cup {t} |-> IF x = t THEN list ELSE map[x]]

\* an eviction that empties the bucket and leaves it in the map
HASH_DEL_KeepsBucket(map, t) == MapPut(map, t, <<>>)

\* HASH_DEL
HASH_DEL(map, t) == [x \in (DOMAIN map) \ {t} |-> map[x]]

\* every EventListEntry held by some bucket
LiveEntries(map) == UNION {Range(map[t]) : t \in DOMAIN map}

\* malloc(sizeof(struct EventListEntry)): storage never handed out before, or
\* storage that free() got back
MallocEntry(map, fr) ==
  LET used == {e.addr : e \in LiveEntries(map)} \cup fr
      fresh == IF used = {} THEN 1
               ELSE 1 + CHOOSE a \in used : \A b \in used : b <= a
  IN  fr \cup {fresh}

\* no rwn_history_state_delta call is running; thread_list holds what the last
\* call left of the threads it created without joining them
NoFrame == [pc |-> "idle", thread_list |-> <<>>]

\* what a caller can observe of the History
Snapshot == [map |-> timepoint_hash_map,
             handles |-> event_handle_list,
             destroy_calls |-> destroy_calls,
             replay |-> [valid |-> FALSE, log |-> <<>>, ret |-> 0]]

\* what the call before a sequential rwn_history_state_delta has applied and
\* returned, when that call was a sequential state_delta over the same range
PreviousReplay(start_timepoint, finish_timepoint, max_threads) ==
  IF /\ call.op = "state_delta"
     /\ call.returned
     /\ call.max_threads = 0 /\ max_threads = 0
     /\ call.start = start_timepoint /\ call.finish = finish_timepoint
  THEN [valid |-> TRUE, log |-> apply_log, ret |-> call.ret]
  ELSE Snapshot.replay

Init ==
  /\ timepoint_hash_map = <<>>
  /\ event_handle_list = <<>>
  /\ alive = TRUE
  /\ freed = {}
  /\ consumed = {}
  /\ h_timepoint = -1
  /\ nscheduled = 0
  /\ sched_count = [t \in Timepoints |-> 0]
  /\ removed_count = [t \in Timepoints |-> 0]
  /\ destroy_calls = [e \in EventIds |-> 0]
  /\ apply_log = <<>>
  /\ call = [op |-> "create"]
  /\ pre = [map |-> <<>>, handles |-> <<>>,
            destroy_calls |-> [e \in EventIds |-> 0],
            replay |-> [valid |-> FALSE, log |-> <<>>, ret |-> 0]]
  /\ sd = NoFrame

\* the public functions are called one at a time, on a History not yet destroyed
CanCall == alive /\ sd.pc = "idle"

(* ---------------------------- operations ------------------------------ *)
\* rwn_history_schedule from its malloc of the entry on: the entry is
\* appended to the bucket of the timepoint (created if absent), the bucket is
\* sorted, a handle is appended to the handle list and returned
ScheduleInsert(at_timepoint, at_phase, evt_null, evt_apply_func, evt_destroy_func) ==
  /\ nscheduled < MaxEvents
  /\ \E addr \in MallocEntry(timepoint_hash_map, freed) :
       LET id == nscheduled + 1
           old == IF HASH_FIND_INT(timepoint_hash_map, at_timepoint)
                  THEN timepoint_hash_map[at_timepoint]
                  ELSE <<>>
           evtentry == [id |-> id,
                        addr |-> addr,
                        user_event |-> IF evt_null THEN NULL ELSE id,
                        user_event_apply_func |-> evt_apply_func,
                        user_event_destroy_func |-> evt_destroy_func,
                        phase |-> at_phase]
           handle == [timepoint |-> at_timepoint, event_list_elem |-> addr]
       IN  /\ timepoint_hash_map' =
                MapPut(timepoint_hash_map, at_timepoint,
                       LL_SORT(Append(old, evtentry)))
           /\ event_handle_list' = Append(event_handle_list, handle)
           /\ freed' = freed \ {addr}
           /\ nscheduled' = id
           /\ sched_count' = [sched_count EXCEPT ![at_timepoint] = @ + 1]
           /\ call' = [op |-> "schedule", timepoint |-> at_timepoint,
                       ok |-> TRUE, ret |-> handle, id |-> id]

\* schedule without its test of the timepoint
Schedule_Unchecked(at_timepoint, at_phase, evt_null, evt_apply_func, evt_destroy_func) ==
  /\ CanCall
  /\ pre' = Snapshot
  /\ apply_log' = <<>>
  /\ UNCHANGED <<sd, h_timepoint, destroy_calls, removed_count, alive, consumed>>
  /\ ScheduleInsert(at_timepoint, at_phase, evt_null, evt_apply_func,
                    evt_destroy_func)

\* rwn_history_schedule
Schedule(at_timepoint, at_phase, evt_null, evt_apply_func, evt_destroy_func) ==
  /\ CanCall
  /\ pre' = Snapshot
  /\ apply_log' = <<>>
  /\ UNCHANGED <<sd, h_timepoint, destroy_calls, removed_count, alive, consumed>>
  /\ IF at_timepoint < 0
     THEN /\ call' = [op |-> "schedule", timepoint |-> at_timepoint,
                      ok |-> FALSE]
          /\ UNCHANGED <<timepoint_hash_map, event_handle_list, freed,
                         nscheduled, sched_count>>
     ELSE ScheduleInsert(at_timepoint, at_phase, evt_null, evt_apply_func,
                         evt_destroy_func)

\* is_event_handle_valid: the bucket of the handle's timepoint exists, is not
\* empty and holds an entry at the address the handle points to
is_event_handle_valid(map, eh) ==
  /\ HASH_FIND_INT(map, eh.timepoint)
  /\ map[eh.timepoint] # <<>>
  /\ \E n \in 1..Len(map[eh.timepoint]) :
       map[eh.timepoint][n].addr = eh.event_list_elem

\* the EventListEntry a handle points to (eh->event_list_elem)
EntryOf(map, eh) ==
  LET list == map[eh.timepoint]
  IN  list[CHOOSE n \in 1..Len(list) : list[n].addr = eh.event_list_elem]

\* the mutable part of a History together with the effects on its caller
Store == [map |-> timepoint_hash_map,
          handles |-> event_handle_list,
          freed |-> freed,
          consumed |-> consumed,
          nscheduled |-> nscheduled,
          destroy_calls |-> destroy_calls,
          removed_count |-> removed_count]

\* an unschedule that runs the destroy func and leaves the entry in its bucket
UnscheduleBody_KeepsEntry(S, eh) ==
  LET evtentry == EntryOf(S.map, eh)
  IN  [S EXCEPT
         !.handles = LL_DELETE(S.handles, eh),
         !.destroy_calls =
           IF evtentry.user_event_destroy_func
           THEN [S.destroy_calls EXCEPT ![evtentry.id] = @ + 1]
           ELSE S.destroy_calls,
         !.removed_count = [S.removed_count EXCEPT ![eh.timepoint] = @ + 1]]

\* an unschedule that hands only events with an apply func to the destroy func
UnscheduleBody_SkipsMarkers(S, eh) ==
  LET evtentry == EntryOf(S.map, eh)
      list == LL_DELETE(S.map[eh.timepoint], evtentry)
  IN  [S EXCEPT
         !.map = IF LL_COUNT(list) = 0
                 THEN HASH_DEL(S.map, eh.timepoint)
                 ELSE MapPut(S.map, eh.timepoint, list),
         !.handles = LL_DELETE(S.handles, eh),
         !.freed = S.freed \cup {evtentry.addr},
         !.destroy_calls =
           IF evtentry.user_event_destroy_func
              /\ evtentry.user_event_apply_func
           THEN [S.destroy_calls EXCEPT ![evtentry.id] = @ + 1]
           ELSE S.destroy_calls,
         !.removed_count = [S.removed_count EXCEPT ![eh.timepoint] = @ + 1]]

\* an unschedule that leaves the handle in the handle list
UnscheduleBody_KeepsHandle(S, eh) ==
  LET evtentry == EntryOf(S.map, eh)
      list == LL_DELETE(S.map[eh.timepoint], evtentry)
  IN  [S EXCEPT
         !.map = IF LL_COUNT(list) = 0
                 THEN HASH_DEL(S.map, eh.timepoint)
                 ELSE MapPut(S.map, eh.timepoint, list),
         !.freed = S.freed \cup {evtentry.addr},
         !.destroy_calls =
           IF evtentry.user_event_destroy_func
           THEN [S.destroy_calls EXCEPT ![evtentry.id] = @ + 1]
           ELSE S.destroy_calls,
         !.removed_count = [S.removed_count EXCEPT ![eh.timepoint] = @ + 1]]

\* an unschedule that evicts the bucket without counting what is left in it
UnscheduleBody_EvictsBucket(S, eh) ==
  LET evtentry == EntryOf(S.map, eh)
  IN  [S EXCEPT
         !.map = HASH_DEL(S.map, eh.timepoint),
         !.handles = LL_DELETE(S.handles, eh),
         !.freed = S.freed \cup {evtentry.addr},
         !.destroy_calls =
           IF evtentry.user_event_destroy_func
           THEN [S.destroy_calls EXCEPT ![evtentry.id] = @ + 1]
           ELSE S.destroy_calls,
         !.removed_count = [S.removed_count EXCEPT ![eh.timepoint] = @ + 1]]

\* the body of rwn_history_unschedule, after its assert has passed
UnscheduleBody(S, eh) ==
  LET evtentry == EntryOf(S.map, eh)
      list == LL_DELETE(S.map[eh.timepoint], evtentry)
  IN  [map |-> IF LL_COUNT(list) = 0
               THEN HASH_DEL(S.map, eh.timepoint)
               ELSE MapPut(S.map, eh.timepoint, list),
       handles |-> LL_DELETE(S.handles, eh),
       freed |-> S.freed \cup {evtentry.addr},
       consumed |-> S.consumed \cup {[timepoint |-> eh.timepoint,
                                     event_list_elem |-> eh.event_list_elem,
                                     at |-> S.nscheduled]},
       nscheduled |-> S.nscheduled,
       destroy_calls |->
         IF evtentry.user_event_destroy_func
         THEN [S.destroy_calls EXCEPT ![evtentry.id] = @ + 1]
         ELSE S.destroy_calls,
       removed_count |-> [S.removed_count EXCEPT ![eh.timepoint] = @ + 1]]

SetStore(S) ==
  /\ timepoint_hash_map' = S.map
  /\ event_handle_list' = S.handles
  /\ freed' = S.freed
  /\ consumed' = S.consumed
  /\ destroy_calls' = S.destroy_calls
  /\ removed_count' = S.removed_count

\* rwn_history_unschedule, called with a handle the History has issued and
\* not yet consumed
Unschedule(eh) ==
  /\ CanCall
  /\ pre' = Snapshot
  /\ eh \in Range(event_handle_list)
  /\ is_event_handle_valid(timepoint_hash_map, eh)
  /\ SetStore(UnscheduleBody(Store, eh))
  /\ apply_log' = <<>>
  /\ call' = [op |-> "unschedule", handle |-> eh,
              id |-> EntryOf(timepoint_hash_map, eh).id]
  /\ UNCHANGED <<alive, nscheduled, sched_count, sd, h_timepoint>>

\* what rwn_history_unschedule can read through a handle c that it has freed
\* before: the fields as they were, the fields of a live handle that malloc
\* has since placed in the same storage, or bytes that name no timepoint
DanglingReads(c) ==
  {[timepoint |-> c.timepoint, event_list_elem |-> c.event_list_elem]}
    \cup {eh \in Range(event_handle_list) :
            EntryOf(timepoint_hash_map, eh).id > c.at}
    \cup {[timepoint |-> -1, event_list_elem |-> NULL]}

\* rwn_history_unschedule, called again with a handle it has consumed: the
\* assert either aborts the process or passes, and then the body runs on the
\* entry the fields read name; after the second free of the handle the run
\* goes on only if the storage was that of a live handle
UnscheduleConsumed(c) ==
  /\ CanCall
  /\ c \in consumed
  /\ pre' = Snapshot
  /\ apply_log' = <<>>
  /\ UNCHANGED <<nscheduled, sched_count, sd, h_timepoint>>
  /\ \E eh \in DanglingReads(c) :
       IF is_event_handle_valid(timepoint_hash_map, eh)
       THEN /\ SetStore(UnscheduleBody(Store, eh))
            /\ alive' = (eh \in Range(event_handle_list))
            /\ call' = [op |-> "unschedule_consumed", handle |-> c,
                        aborted |-> FALSE]
       ELSE /\ SetStore(Store)
            /\ alive' = FALSE
            /\ call' = [op |-> "unschedule_consumed", handle |-> c,
                        aborted |-> TRUE]

\* the loop with the finish timepoint excluded
RECURSIVE UnscheduleAllLoop_Exclusive(_, _, _, _, _)
UnscheduleAllLoop_Exclusive(S, rest, start_timepoint, finish_timepoint, evtcount) ==
  IF rest = <<>> THEN [store |-> S, evtcount |-> evtcount]
  ELSE LET eh == Head(rest)
       IN  IF eh.timepoint >= start_timepoint /\ eh.timepoint < finish_timepoint
           THEN UnscheduleAllLoop_Exclusive(UnscheduleBody(S, eh), Tail(rest),
                                            start_timepoint, finish_timepoint,
                                            evtcount + 1)
           ELSE UnscheduleAllLoop_Exclusive(S, Tail(rest), start_timepoint,
                                            finish_timepoint, evtcount)

\* the LL_FOREACH_SAFE loop of rwn_history_unschedule_all over the handles
\* `rest` still to visit; yields the store and the number unscheduled
RECURSIVE UnscheduleAllLoop(_, _, _, _, _)
UnscheduleAllLoop(S, rest, start_timepoint, finish_timepoint, evtcount) ==
  IF rest = <<>> THEN [store |-> S, evtcount |-> evtcount]
  ELSE LET eh == Head(rest)
       IN  IF eh.timepoint >= start_timepoint /\ eh.timepoint <= finish_timepoint
           THEN UnscheduleAllLoop(UnscheduleBody(S, eh), Tail(rest),
                                  start_timepoint, finish_timepoint, evtcount + 1)
           ELSE UnscheduleAllLoop(S, Tail(rest),
                                  start_timepoint, finish_timepoint, evtcount)

\* unschedule_all without its checks of the range
UnscheduleAll_Unchecked(start_timepoint, finish_timepoint) ==
  /\ CanCall
  /\ pre' = Snapshot
  /\ apply_log' = <<>>
  /\ UNCHANGED <<alive, nscheduled, sched_count, sd, h_timepoint>>
  /\ LET r == UnscheduleAllLoop(Store, event_handle_list,
                                start_timepoint, finish_timepoint, 0)
     IN  /\ SetStore(r.store)
         /\ call' = [op |-> "unschedule_all", start |-> start_timepoint,
                     finish |-> finish_timepoint, ret |-> r.evtcount]

\* rwn_history_unschedule_all
UnscheduleAll(start_timepoint, finish_timepoint) ==
  /\ CanCall
  /\ pre' = Snapshot
  /\ apply_log' = <<>>
  /\ UNCHANGED <<alive, nscheduled, sched_count, sd, h_timepoint>>
  /\ IF start_timepoint < 0 \/ finish_timepoint < 0
        \/ finish_timepoint < start_timepoint
     THEN /\ call' = [op |-> "unschedule_all", start |-> start_timepoint,
                      finish |-> finish_timepoint, ret |-> 0]
          /\ SetStore(Store)
     ELSE LET r == UnscheduleAllLoop(Store, event_handle_list,
                                     start_timepoint, finish_timepoint, 0)
          IN  /\ SetStore(r.store)
              /\ call' = [op |-> "unschedule_all", start |-> start_timepoint,
                          finish |-> finish_timepoint, ret |-> r.evtcount]

\* a teardown that frees the entries without running their destroy funcs
Destroy_NoDestroyFunc ==
  /\ CanCall
  /\ pre' = Snapshot
  /\ freed' = freed \cup {e.addr : e \in LiveEntries(timepoint_hash_map)}
  /\ timepoint_hash_map' = <<>>
  /\ event_handle_list' = <<>>
  /\ alive' = FALSE
  /\ apply_log' = <<>>
  /\ call' = [op |-> "destroy"]
  /\ UNCHANGED <<nscheduled, sched_count, removed_count, sd, h_timepoint, destroy_calls,
                 consumed>>

\* rwn_history_destroy: every entry of every bucket is unlinked, handed to its
\* destroy func if it has one, and freed; then the handles and h itself
Destroy ==
  /\ CanCall
  /\ pre' = Snapshot
  /\ LET entries == LiveEntries(timepoint_hash_map)
     IN  /\ destroy_calls' =
              [id \in EventIds |->
                 destroy_calls[id] +
                 Cardinality({e \in entries :
                                e.id = id /\ e.user_event_destroy_func})]
         /\ freed' = freed \cup {e.addr : e \in entries}
  /\ timepoint_hash_map' = <<>>
  /\ event_handle_list' = <<>>
  /\ alive' = FALSE
  /\ apply_log' = <<>>
  /\ call' = [op |-> "destroy"]
  /\ UNCHANGED <<nscheduled, sched_count, removed_count, sd, h_timepoint, consumed>>

\* a count that also rejects timepoint 0
count_events_ZeroInvalid(map, at_timepoint) ==
  IF at_timepoint <= 0 THEN 0
  ELSE IF HASH_FIND_INT(map, at_timepoint)
       THEN LL_COUNT(map[at_timepoint])
       ELSE 0

\* a count that is never decremented by a removal
count_events_NeverDecremented(map, at_timepoint) ==
  IF at_timepoint < 0 THEN 0 ELSE sched_count[at_timepoint]

\* rwn_history_count_events
count_events(map, at_timepoint) ==
  IF at_timepoint < 0 THEN 0
  ELSE IF HASH_FIND_INT(map, at_timepoint)
       THEN LL_COUNT(map[at_timepoint])
       ELSE 0

CountEvents(at_timepoint) ==
  /\ CanCall
  /\ pre' = Snapshot
  /\ apply_log' = <<>>
  /\ call' = [op |-> "count_events", timepoint |-> at_timepoint,
              ret |-> count_events(timepoint_hash_map, at_timepoint)]
  /\ UNCHANGED <<history, counters, destroy_calls, sd>>

\* a get_events whose loop stops one entry early
get_events_StopsEarly(map, at_timepoint) ==
  IF count_events(map, at_timepoint) <= 0 THEN <<>>
  ELSE IF HASH_FIND_INT(map, at_timepoint)
       THEN [n \in 1..(Len(map[at_timepoint]) - 1) |->
               map[at_timepoint][n].user_event]
       ELSE <<>>

\* rwn_history_get_events: the payload pointers written to user_eventv
get_events(map, at_timepoint) ==
  IF count_events(map, at_timepoint) <= 0 THEN <<>>
  ELSE IF HASH_FIND_INT(map, at_timepoint)
       THEN [n \in 1..Len(map[at_timepoint]) |->
               map[at_timepoint][n].user_event]
       ELSE <<>>

GetEvents(at_timepoint) ==
  /\ CanCall
  /\ pre' = Snapshot
  /\ apply_log' = <<>>
  /\ LET user_eventv == get_events(timepoint_hash_map, at_timepoint)
     IN  call' = [op |-> "get_events", timepoint |-> at_timepoint,
                  user_eventv |-> user_eventv, ret |-> Len(user_eventv)]
  /\ UNCHANGED <<history, counters, destroy_calls, sd>>

\* an applicability test that forgets the apply func
Applicable_IgnoresApply(evtentry) == evtentry.user_event # NULL

(* ------------------------ rwn_history_state_delta --------------------- *)
\* an applicability test that forgets the payload
Applicable_IgnoresPayload(evtentry) == evtentry.user_event_apply_func

\* the test both branches make before applying an entry
Applicable(evtentry) ==
  evtentry.user_event # NULL /\ evtentry.user_event_apply_func

\* the else branch (max_threads <= 0): the ids applied, in list order; this
\* branch does not look at `state`
RECURSIVE SequentialApply(_)
SequentialApply(list) ==
  IF list = <<>> THEN <<>>
  ELSE IF Applicable(Head(list))
       THEN <<Head(list).id>> \o SequentialApply(Tail(list))
       ELSE SequentialApply(Tail(list))

\* the join test without its comparison with the cap
MustJoinAll_PhaseOnly(thread_list_length, max_threads, current_phase, prev_phase) ==
  current_phase # prev_phase

\* the join test without its phase comparison
MustJoinAll_CapOnly(thread_list_length, max_threads, current_phase, prev_phase) ==
  thread_list_length >= max_threads

\* the join test with the cap compared by > instead of >=
MustJoinAll_OffByOne(thread_list_length, max_threads, current_phase, prev_phase) ==
  thread_list_length > max_threads \/ current_phase # prev_phase

\* the test that makes the dispatch loop join every thread first
MustJoinAll(thread_list_length, max_threads, current_phase, prev_phase) ==
  thread_list_length >= max_threads \/ current_phase # prev_phase

\* pthread_create + LL_APPEND + evtcount += 1, then on to the next entry
DispatchFrame(frame, evtentry, tp) ==
  [frame EXCEPT
     !.pc = "foreach",
     !.thread_list = Append(@, [id |-> evtentry.id,
                                user_event |-> evtentry.user_event,
                                timepoint |-> tp,
                                phase |-> evtentry.phase,
                                done |-> FALSE]),
     !.evtcount = @ + 1,
     !.k = @ + 1]

\* a call that walks whatever range it is given
StateDeltaCall_Unchecked(start_timepoint, finish_timepoint, state_null, max_threads) ==
  /\ CanCall
  /\ pre' = Snapshot
  /\ apply_log' = <<>>
  /\ call' = [op |-> "state_delta", start |-> start_timepoint,
              finish |-> finish_timepoint, state_null |-> state_null,
              max_threads |-> max_threads,
              returned |-> FALSE, ret |-> 0]
  /\ sd' = [pc |-> "for", i |-> start_timepoint, evtcount |-> 0,
            k |-> 0, prev_phase |-> 0, thread_list |-> <<>>,
            thread_list_length |-> 0]
  /\ UNCHANGED <<history, counters, destroy_calls>>

\* a call whose walk starts at timepoint 0 whatever the start is
StateDeltaCall_FromZero(start_timepoint, finish_timepoint, state_null, max_threads) ==
  /\ CanCall
  /\ pre' = Snapshot
  /\ apply_log' = <<>>
  /\ IF start_timepoint < 0 \/ finish_timepoint < 0
        \/ finish_timepoint < start_timepoint
     THEN /\ call' = [op |-> "state_delta", start |-> start_timepoint,
                      finish |-> finish_timepoint, state_null |-> state_null,
                      max_threads |-> max_threads,
                      returned |-> TRUE, ret |-> 0]
          /\ sd' = NoFrame
     ELSE /\ call' = [op |-> "state_delta", start |-> start_timepoint,
                      finish |-> finish_timepoint, state_null |-> state_null,
                      max_threads |-> max_threads,
                      returned |-> FALSE, ret |-> 0]
          /\ sd' = [pc |-> "for", i |-> 0, evtcount |-> 0,
                    k |-> 0, prev_phase |-> 0, thread_list |-> <<>>,
                    thread_list_length |-> 0]
  /\ UNCHANGED <<history, counters, destroy_calls>>

\* a call that returns 0 when it is given no state
StateDeltaCall_NullStateReturns(start_timepoint, finish_timepoint, state_null, max_threads) ==
  /\ CanCall
  /\ pre' = Snapshot
  /\ apply_log' = <<>>
  /\ IF start_timepoint < 0 \/ finish_timepoint < 0
        \/ finish_timepoint < start_timepoint \/ state_null
     THEN /\ call' = [op |-> "state_delta", start |-> start_timepoint,
                      finish |-> finish_timepoint, state_null |-> state_null,
                      max_threads |-> max_threads,
                      returned |-> TRUE, ret |-> 0]
          /\ sd' = NoFrame
     ELSE /\ call' = [op |-> "state_delta", start |-> start_timepoint,
                      finish |-> finish_timepoint, state_null |-> state_null,
                      max_threads |-> max_threads,
                      returned |-> FALSE, ret |-> 0]
          /\ sd' = [pc |-> "for", i |-> start_timepoint, evtcount |-> 0,
                    k |-> 0, prev_phase |-> 0, thread_list |-> <<>>,
                    thread_list_length |-> 0]
  /\ UNCHANGED <<history, counters, destroy_calls>>

\* a call that goes on from where the call before it has stopped
StateDeltaCall_Resumes(start_timepoint, finish_timepoint, state_null, max_threads) ==
  /\ CanCall
  /\ pre' = [Snapshot EXCEPT !.replay = PreviousReplay(start_timepoint,
                                                       finish_timepoint,
                                                       max_threads)]
  /\ apply_log' = <<>>
  /\ IF start_timepoint < 0 \/ finish_timepoint < 0
        \/ finish_timepoint < start_timepoint
     THEN /\ call' = [op |-> "state_delta", start |-> start_timepoint,
                      finish |-> finish_timepoint, state_null |-> state_null,
                      max_threads |-> max_threads,
                      returned |-> TRUE, ret |-> 0]
          /\ sd' = NoFrame
     ELSE /\ call' = [op |-> "state_delta", start |-> start_timepoint,
                      finish |-> finish_timepoint, state_null |-> state_null,
                      max_threads |-> max_threads,
                      returned |-> FALSE, ret |-> 0]
          /\ sd' = [pc |-> "for",
                    i |-> IF call.op = "state_delta" /\ call.returned
                          THEN call.finish + 1
                          ELSE start_timepoint, evtcount |-> 0,
                    k |-> 0, prev_phase |-> 0, thread_list |-> <<>>,
                    thread_list_length |-> 0]
  /\ UNCHANGED <<history, counters, destroy_calls>>

\* the call: the range checks, then the loop over the timepoints starts
StateDeltaCall(start_timepoint, finish_timepoint, state_null, max_threads) ==
  /\ CanCall
  /\ pre' = [Snapshot EXCEPT !.replay = PreviousReplay(start_timepoint,
                                                       finish_timepoint,
                                                       max_threads)]
  /\ apply_log' = <<>>
  /\ IF start_timepoint < 0 \/ finish_timepoint < 0
        \/ finish_timepoint < start_timepoint
     THEN /\ call' = [op |-> "state_delta", start |-> start_timepoint,
                      finish |-> finish_timepoint, state_null |-> state_null,
                      max_threads |-> max_threads,
                      returned |-> TRUE, ret |-> 0]
          /\ sd' = NoFrame
     ELSE /\ call' = [op |-> "state_delta", start |-> start_timepoint,
                      finish |-> finish_timepoint, state_null |-> state_null,
                      max_threads |-> max_threads,
                      returned |-> FALSE, ret |-> 0]
          /\ sd' = [pc |-> "for", i |-> start_timepoint, evtcount |-> 0,
                    k |-> 0, prev_phase |-> 0, thread_list |-> <<>>,
                    thread_list_length |-> 0]
  /\ UNCHANGED <<history, counters, destroy_calls>>

\* a choice of the threaded branch for every max_threads but 0
Threaded_NonZero(max_threads) == max_threads # 0

\* the choice between the threaded and the sequential branch
Threaded(max_threads) == max_threads > 0

\* a loop that stops before the finish timepoint
PastFinish_Exclusive(i, finish_timepoint) == ~(i < finish_timepoint)

\* the for loop ends: i <= finish_timepoint is false
PastFinish(i, finish_timepoint) == ~(i <= finish_timepoint)

\* one turn of for (i = start; i <= finish; ++i), up to the dispatch loop
SD_For ==
  /\ sd.pc = "for"
  /\ UNCHANGED <<history, counters, destroy_calls, pre>>
  /\ IF PastFinish(sd.i, call.finish)
     THEN /\ call' = [call EXCEPT !.returned = TRUE, !.ret = sd.evtcount]
          /\ sd' = [NoFrame EXCEPT !.thread_list = sd.thread_list]
          /\ UNCHANGED apply_log
     ELSE /\ UNCHANGED call
          /\ IF ~HASH_FIND_INT(timepoint_hash_map, sd.i)
             THEN /\ sd' = [sd EXCEPT !.i = @ + 1]
                  /\ UNCHANGED apply_log
             ELSE LET list == timepoint_hash_map[sd.i]
                  IN  IF list = <<>>
                      THEN /\ sd' = [sd EXCEPT !.i = @ + 1]
                           /\ UNCHANGED apply_log
                      ELSE IF Threaded(call.max_threads)
                      THEN /\ sd' = [sd EXCEPT !.pc = "foreach", !.k = 1,
                                               !.prev_phase = list[1].phase,
                                               !.thread_list = <<>>,
                                               !.thread_list_length = 0]
                           /\ UNCHANGED apply_log
                      ELSE LET applied == SequentialApply(list)
                           IN  /\ apply_log' = apply_log \o applied
                               /\ sd' = [sd EXCEPT
                                           !.i = @ + 1,
                                           !.evtcount = @ + Len(applied)]

\* one turn of LL_FOREACH(mapentry->event_list, evtentry) in the threaded
\* branch, up to the point where it has to wait for a thread
SD_Foreach ==
  /\ sd.pc = "foreach"
  /\ UNCHANGED <<history, counters, destroy_calls, apply_log, call, pre>>
  /\ LET list == timepoint_hash_map[sd.i]
     IN  IF sd.k > Len(list)
         THEN sd' = IF sd.thread_list = <<>>
                    THEN [sd EXCEPT !.pc = "for", !.i = @ + 1]
                    ELSE [sd EXCEPT !.pc = "join"]
         ELSE LET evtentry == list[sd.k]
              IN  IF ~Applicable(evtentry)
                  THEN sd' = [sd EXCEPT !.k = @ + 1]
                  ELSE LET counted ==
                             [sd EXCEPT !.thread_list_length =
                                          LL_COUNT(sd.thread_list)]
                       IN  IF MustJoinAll(counted.thread_list_length,
                                          call.max_threads,
                                          evtentry.phase, sd.prev_phase)
                              /\ sd.thread_list # <<>>
                           THEN sd' = [counted EXCEPT !.pc = "drain"]
                           ELSE sd' = DispatchFrame(counted, evtentry, sd.i)

\* a sliding window: one join, then the dispatch at once
SD_DrainJoin_Sliding ==
  /\ sd.pc = "drain"
  /\ sd.thread_list # <<>>
  /\ Head(sd.thread_list).done
  /\ sd' = DispatchFrame([sd EXCEPT !.thread_list = Tail(@)],
                         timepoint_hash_map[sd.i][sd.k], sd.i)
  /\ UNCHANGED <<history, counters, destroy_calls, apply_log, call, pre>>

\* pthread_join of the first thread of the list, inside the dispatch loop
SD_DrainJoin ==
  /\ sd.pc = "drain"
  /\ sd.thread_list # <<>>
  /\ Head(sd.thread_list).done
  /\ sd' = [sd EXCEPT !.thread_list = Tail(@)]
  /\ UNCHANGED <<history, counters, destroy_calls, apply_log, call, pre>>

\* the joins followed by a step to the next entry, without the dispatch
SD_Dispatch_Skipped ==
  /\ sd.pc = "drain"
  /\ sd.thread_list = <<>>
  /\ sd' = [sd EXCEPT !.pc = "foreach", !.k = @ + 1]
  /\ UNCHANGED <<history, counters, destroy_calls, apply_log, call, pre>>

\* the dispatch that follows the joins
SD_Dispatch ==
  /\ sd.pc = "drain"
  /\ sd.thread_list = <<>>
  /\ sd' = DispatchFrame(sd, timepoint_hash_map[sd.i][sd.k], sd.i)
  /\ UNCHANGED <<history, counters, destroy_calls, apply_log, call, pre>>

\* a final loop that joins the first thread only
SD_FinalJoin_OnlyFirst ==
  /\ sd.pc = "join"
  /\ sd.thread_list # <<>>
  /\ Head(sd.thread_list).done
  /\ sd' = [sd EXCEPT !.thread_list = Tail(@), !.pc = "for", !.i = @ + 1]
  /\ UNCHANGED <<history, counters, destroy_calls, apply_log, call, pre>>

\* no final loop: the walk goes on with the threads left running
SD_FinalJoin_NoJoin ==
  /\ sd.pc = "join"
  /\ sd.thread_list # <<>>
  /\ sd' = [sd EXCEPT !.pc = "for", !.i = @ + 1]
  /\ UNCHANGED <<history, counters, destroy_calls, apply_log, call, pre>>

\* "Join any remaining threads", then ++i
SD_FinalJoin ==
  /\ sd.pc = "join"
  /\ sd.thread_list # <<>>
  /\ Head(sd.thread_list).done
  /\ sd' = IF Tail(sd.thread_list) = <<>>
           THEN [sd EXCEPT !.thread_list = <<>>, !.pc = "for", !.i = @ + 1]
           ELSE [sd EXCEPT !.thread_list = Tail(@)]
  /\ UNCHANGED <<history, counters, destroy_calls, apply_log, call, pre>>

\* a thread whose apply func never returns
ThreadApply_Stalls(n) ==
  /\ n \in 1..Len(sd.thread_list)
  /\ ~sd.thread_list[n].done
  /\ UNCHANGED vars

\* thread_apply_event: a created thread runs the apply func and ends
ThreadApply(n) ==
  /\ n \in 1..Len(sd.thread_list)
  /\ ~sd.thread_list[n].done
  /\ sd' = [sd EXCEPT !.thread_list[n].done = TRUE]
  /\ apply_log' = Append(apply_log, sd.thread_list[n].id)
  /\ UNCHANGED <<history, counters, destroy_calls, call, pre>>

(* ------------- the earlier revision: a cursor over the timepoints ------ *)
\* rwn_history_is_timepoint_valid
rwn_history_is_timepoint_valid(timepoint) == timepoint >= 0

\* rwn_history_schedule of the earlier revision: no phase, the entry is
\* appended to the bucket and the bucket is not sorted (the phase field of
\* the later revision's entries is kept at 0)
ScheduleOld(timepoint, evt_null, evt_apply_func, evt_destroy_func) ==
  /\ CanCall
  /\ pre' = Snapshot
  /\ apply_log' = <<>>
  /\ UNCHANGED <<sd, h_timepoint, destroy_calls, removed_count, alive, consumed>>
  /\ IF ~rwn_history_is_timepoint_valid(timepoint)
     THEN /\ call' = [op |-> "schedule", timepoint |-> timepoint, ok |-> FALSE]
          /\ UNCHANGED <<timepoint_hash_map, event_handle_list, freed,
                         nscheduled, sched_count>>
     ELSE /\ nscheduled < MaxEvents
          /\ \E addr \in MallocEntry(timepoint_hash_map, freed) :
               LET id == nscheduled + 1
                   old == IF HASH_FIND_INT(timepoint_hash_map, timepoint)
                          THEN timepoint_hash_map[timepoint]
                          ELSE <<>>
                   evtentry == [id |-> id,
                                addr |-> addr,
                                user_event |-> IF evt_null THEN NULL ELSE id,
                                user_event_apply_func |-> evt_apply_func,
                                user_event_destroy_func |-> evt_destroy_func,
                                phase |-> 0]
                   handle == [timepoint |-> timepoint, event_list_elem |-> addr]
               IN  /\ timepoint_hash_map' =
                        MapPut(timepoint_hash_map, timepoint,
                               Append(old, evtentry))
                   /\ event_handle_list' = Append(event_handle_list, handle)
                   /\ freed' = freed \ {addr}
                   /\ nscheduled' = id
                   /\ sched_count' = [sched_count EXCEPT ![timepoint] = @ + 1]
                   /\ call' = [op |-> "schedule", timepoint |-> timepoint,
                               ok |-> TRUE, ret |-> handle, id |-> id]

\* the loop of rwn_history_forwards over a bucket: the ids applied, in list
\* order
RECURSIVE ForwardsApply(_, _)
ForwardsApply(list, state_null) ==
  IF list = <<>> THEN <<>>
  ELSE IF /\ ~state_null
          /\ Head(list).user_event # NULL
          /\ Head(list).user_event_apply_func
       THEN <<Head(list).id>> \o ForwardsApply(Tail(list), state_null)
       ELSE ForwardsApply(Tail(list), state_null)

\* a forwards that applies the bucket of the cursor and steps afterwards
Forwards_StepsAfterwards(state_null) ==
  /\ CanCall
  /\ h_timepoint < MaxTimepoint + CursorSpan
  /\ pre' = Snapshot
  /\ h_timepoint' = h_timepoint + 1
  /\ apply_log' = IF HASH_FIND_INT(timepoint_hash_map, h_timepoint)
                  THEN ForwardsApply(timepoint_hash_map[h_timepoint],
                                     state_null)
                  ELSE <<>>
  /\ call' = [op |-> "forwards", from |-> h_timepoint,
              state_null |-> state_null]
  /\ UNCHANGED <<timepoint_hash_map, event_handle_list, alive, freed,
                 consumed, counters, destroy_calls, sd>>

\* rwn_history_forwards: the cursor is stepped, then the bucket of the new
\* current timepoint is applied to the state
Forwards(state_null) ==
  /\ CanCall
  /\ h_timepoint < MaxTimepoint + CursorSpan
  /\ pre' = Snapshot
  /\ h_timepoint' = h_timepoint + 1
  /\ apply_log' = IF HASH_FIND_INT(timepoint_hash_map, h_timepoint + 1)
                  THEN ForwardsApply(timepoint_hash_map[h_timepoint + 1],
                                     state_null)
                  ELSE <<>>
  /\ call' = [op |-> "forwards", from |-> h_timepoint,
              state_null |-> state_null]
  /\ UNCHANGED <<timepoint_hash_map, event_handle_list, alive, freed,
                 consumed, counters, destroy_calls, sd>>

\* a backwards that stops at the invalid timepoint
Backwards_Clamped ==
  /\ CanCall
  /\ h_timepoint > -1 - CursorSpan
  /\ pre' = Snapshot
  /\ h_timepoint' = IF h_timepoint > -1 THEN h_timepoint - 1 ELSE h_timepoint
  /\ apply_log' = <<>>
  /\ call' = [op |-> "backwards", from |-> h_timepoint,
              after_forwards |-> call.op = "forwards",
              before |-> IF call.op = "forwards" THEN call.from
                         ELSE h_timepoint]
  /\ UNCHANGED <<timepoint_hash_map, event_handle_list, alive, freed,
                 consumed, counters, destroy_calls, sd>>

\* rwn_history_backwards; the call record keeps whether the call before was
\* a forwards and where the cursor was before that
Backwards ==
  /\ CanCall
  /\ h_timepoint > -1 - CursorSpan
  /\ pre' = Snapshot
  /\ h_timepoint' = h_timepoint - 1
  /\ apply_log' = <<>>
  /\ call' = [op |-> "backwards", from |-> h_timepoint,
              after_forwards |-> call.op = "forwards",
              before |-> IF call.op = "forwards" THEN call.from
                         ELSE h_timepoint]
  /\ UNCHANGED <<timepoint_hash_map, event_handle_list, alive, freed,
                 consumed, counters, destroy_calls, sd>>

(* --------------------------- specifications --------------------------- *)
\* what a caller passes as event, apply func and destroy func: a full event,
\* a marker event without apply func, an event the caller keeps ownership of
MgmtKinds ==
  { [null |-> FALSE, apply |-> TRUE,  destroy |-> TRUE],
    [null |-> FALSE, apply |-> FALSE, destroy |-> TRUE],
    [null |-> FALSE, apply |-> TRUE,  destroy |-> FALSE] }

Next ==
  \/ \E t \in TimepointArgs, p \in Phases, k \in MgmtKinds :
       Schedule(t, p, k.null, k.apply, k.destroy)
  \/ \E eh \in Range(event_handle_list) : Unschedule(eh)
  \/ \E s, f \in TimepointArgs : UnscheduleAll(s, f)
  \/ Destroy
  \/ \E t \in TimepointArgs : CountEvents(t)
  \/ \E t \in TimepointArgs : GetEvents(t)

Spec == Init /\ [][Next]_vars

\* the same caller, who also hands consumed handles to unschedule
NextMisuse ==
  \/ Next
  \/ \E c \in consumed : UnscheduleConsumed(c)

SpecMisuse == Init /\ [][NextMisuse]_vars

\* replay reads the apply func and the payload only: a full event, a marker
\* event, an event with a null payload
ReplayKinds ==
  { [null |-> FALSE, apply |-> TRUE,  destroy |-> TRUE],
    [null |-> FALSE, apply |-> FALSE, destroy |-> TRUE],
    [null |-> TRUE,  apply |-> TRUE,  destroy |-> TRUE] }

\* the arguments of the replay calls: every valid range with every state and
\* max_threads, every invalid range in sequential and in threaded mode
StateDeltaArgs ==
  { a \in [start : TimepointArgs, finish : TimepointArgs,
           state_null : BOOLEAN, max_threads : ThreadArgs] :
      (a.start < 0 \/ a.finish < a.start)
        => (~a.state_null /\ a.max_threads \in {0, MaxThreads}) }

NextReplay ==
  \/ \E t \in TimepointArgs, p \in Phases, k \in ReplayKinds :
       Schedule(t, p, k.null, k.apply, k.destroy)
  \/ \E a \in StateDeltaArgs :
       StateDeltaCall(a.start, a.finish, a.state_null, a.max_threads)
  \/ SD_For
  \/ SD_Foreach
  \/ SD_DrainJoin
  \/ SD_Dispatch
  \/ SD_FinalJoin
  \/ \E n \in 1..MaxThreads : ThreadApply(n)

SpecReplay == Init /\ [][NextReplay]_vars

\* the calling thread goes on whenever it can, and every created thread is
\* scheduled and its apply func returns
SpecReplayFair ==
  /\ SpecReplay
  /\ WF_vars(SD_For)
  /\ WF_vars(SD_Foreach)
  /\ WF_vars(SD_DrainJoin)
  /\ WF_vars(SD_Dispatch)
  /\ WF_vars(SD_FinalJoin)
  /\ \A n \in 1..MaxThreads : WF_vars(ThreadApply(n))

\* a caller of the earlier revision: schedule, forwards and backwards
NextCursor ==
  \/ \E t \in TimepointArgs, k \in ReplayKinds :
       ScheduleOld(t, k.null, k.apply, k.destroy)
  \/ \E state_null \in BOOLEAN : Forwards(state_null)
  \/ Backwards

SpecCursor == Init /\ [][NextCursor]_vars

\* a caller who schedules marker events next to full ones and uses the whole
\* interface with arguments the functions accept
MarkerKinds ==
  { [null |-> FALSE, apply |-> FALSE, destroy |-> TRUE],
    [null |-> FALSE, apply |-> TRUE,  destroy |-> TRUE] }

MarkerReplayArgs ==
  { a \in [start : Timepoints, finish : Timepoints,
           state_null : {FALSE}, max_threads : {0, MaxThreads}] :
      a.start <= a.finish }

NextMarker ==
  \/ \E t \in Timepoints, p \in Phases, k \in MarkerKinds :
       Schedule(t, p, k.null, k.apply, k.destroy)
  \/ \E eh \in Range(event_handle_list) : Unschedule(eh)
  \/ \E s, f \in Timepoints : UnscheduleAll(s, f)
  \/ Destroy
  \/ \E t \in Timepoints : CountEvents(t)
  \/ \E t \in Timepoints : GetEvents(t)
  \/ \E a \in MarkerReplayArgs :
       StateDeltaCall(a.start, a.finish, a.state_null, a.max_threads)
  \/ SD_For
  \/ SD_Foreach
  \/ SD_DrainJoin
  \/ SD_Dispatch
  \/ SD_FinalJoin
  \/ \E n \in 1..MaxThreads : ThreadApply(n)

SpecMarker == Init /\ [][NextMarker]_vars

(* ------------------------------ claims -------------------------------- *)
\* the threads created and not yet joined
InFlight == sd.thread_list

InFlightIds == {InFlight[n].id : n \in 1..Len(InFlight)}

\* how often x occurs in the sequence s
Occurrences(s, x) == Cardinality({n \in 1..Len(s) : s[n] = x})

\* the entries scheduled at timepoint t
EntriesAt(t) ==
  IF t \in DOMAIN timepoint_hash_map THEN Range(timepoint_hash_map[t]) ELSE {}

\* a rwn_history_state_delta call over a valid range has returned
Returned ==
  /\ call.op = "state_delta"
  /\ call.returned
  /\ call.start >= 0 /\ call.finish >= call.start

\* the ids of a set of entries by phase, then by order of scheduling
RECURSIVE ByPhaseThenSchedule(_)
ByPhaseThenSchedule(E) ==
  IF E = {} THEN <<>>
  ELSE LET first == CHOOSE e \in E :
                      \A o \in E : \/ e.phase < o.phase
                                   \/ e.phase = o.phase /\ e.id <= o.id
       IN  <<first.id>> \o ByPhaseThenSchedule(E \ {first})

\* the replay order the documentation promises for the timepoints from..to
RECURSIVE PromisedOrder(_, _)
PromisedOrder(from, to) ==
  IF from > to THEN <<>>
  ELSE ByPhaseThenSchedule({e \in EntriesAt(from) : Applicable(e)})
         \o PromisedOrder(from + 1, to)

\* C1: while an apply task is in flight, every applicable record of the same
\* timepoint with a strictly lower phase has completed and has been joined
C1_PhaseBarrier ==
  \A n \in 1..Len(InFlight) :
    \A r \in EntriesAt(InFlight[n].timepoint) :
      (Applicable(r) /\ r.phase < InFlight[n].phase)
        => (r.id \in Range(apply_log) /\ r.id \notin InFlightIds)

C1_Witness ==
  \E n \in 1..Len(InFlight) :
    \E r \in EntriesAt(InFlight[n].timepoint) :
      /\ Applicable(r) /\ r.phase < InFlight[n].phase
      /\ call.max_threads >= 2

\* C2: a sequential replay (max_threads = 0) has applied the applicable
\* records timepoint ascending, phase ascending, then in scheduling order
C2_SequentialOrder ==
  (Returned /\ call.max_threads = 0)
    => apply_log = PromisedOrder(call.start, call.finish)

\* events of phases 1, 0, 1 scheduled in that order at timepoint 0 and one
\* replayed as second, first, third
C2_Witness ==
  /\ Returned /\ call.max_threads = 0
  /\ call.start = 0 /\ call.finish = 0
  /\ apply_log = <<2, 1, 3>>

\* C3: a bounded-parallel replay (max_threads >= 1) has applied every
\* applicable record of the range exactly once and nothing else, and returns
\* their number
C3_ExactlyOnce ==
  (Returned /\ call.max_threads >= 1)
    => /\ \A id \in EventIds :
            Occurrences(apply_log, id) =
              IF \E t \in call.start..call.finish :
                   \E e \in EntriesAt(t) : e.id = id /\ Applicable(e)
              THEN 1 ELSE 0
       /\ call.ret = Len(apply_log)

\* three events of one timepoint and phase replayed by two threads
C3_Witness ==
  /\ Returned /\ call.max_threads = 2
  /\ \E t \in Timepoints, p \in Phases :
       Cardinality({e \in EntriesAt(t) : Applicable(e) /\ e.phase = p}) = 3
  /\ Len(apply_log) = 3

\* C4: with max_threads = M > 0 at most M threads are created and not joined
C4_ThreadBound ==
  (sd.pc # "idle" /\ call.max_threads > 0)
    => Len(InFlight) <= call.max_threads

\* the cap is reached while a further applicable record waits
C4_Witness ==
  /\ sd.pc = "drain"
  /\ Len(InFlight) = call.max_threads
  /\ call.max_threads = 2

\* C5: the dispatch loop waits for its threads only when the cap is reached
\* or when the next record's phase differs from the phase of the threads in
\* flight
C5_JoinOnlyAtCapOrPhaseChange ==
  (sd.pc = "drain" /\ sd.thread_list # <<>>)
    => \/ sd.thread_list_length >= call.max_threads
       \/ timepoint_hash_map[sd.i][sd.k].phase # Head(sd.thread_list).phase

\* C6: the destroy func of a scheduled record is invoked at most once, whatever
\* sequence of schedule, unschedule, unschedule_all and destroy has run
C6_DestroyAtMostOnce ==
  \A id \in EventIds : destroy_calls[id] <= 1

\* the History is torn down after one record was unscheduled and while
\* another was still scheduled, both with a destroy func
C6_Witness ==
  /\ ~alive
  /\ \E t \in Timepoints : removed_count[t] >= 1
  /\ SeqSum(destroy_calls) >= 2
  /\ SeqSum([t \in 1..(MaxTimepoint + 1) |-> removed_count[t - 1]]) < nscheduled

\* C7: rwn_history_destroy runs the destroy func once for every record still
\* scheduled that has one, runs no apply func, and leaves no bucket, record
\* or handle
C7_Teardown ==
  call.op = "destroy"
    => /\ \A id \in EventIds :
            destroy_calls[id] =
              pre.destroy_calls[id] +
              (IF \E e \in LiveEntries(pre.map) :
                    e.id = id /\ e.user_event_destroy_func
               THEN 1 ELSE 0)
       /\ apply_log = <<>>
       /\ timepoint_hash_map = <<>>
       /\ event_handle_list = <<>>

\* torn down with pending events that have a destroy func
C7_Witness ==
  /\ call.op = "destroy"
  /\ Len(pre.handles) >= 2
  /\ SeqSum(destroy_calls) >= SeqSum(pre.destroy_calls) + 2

\* C8: count_events(t) is the number of successful schedule() calls at t
\* minus the number of records removed at t
C8_Counting ==
  alive =>
    \A t \in Timepoints :
      count_events(timepoint_hash_map, t) = sched_count[t] - removed_count[t]

\* N records scheduled at a timepoint and all of them unscheduled
C8_Witness ==
  /\ alive
  /\ \E t \in Timepoints :
       /\ sched_count[t] >= 2
       /\ removed_count[t] = sched_count[t]
       /\ count_events(timepoint_hash_map, t) = 0

\* C9: schedule() with a negative timepoint returns no handle and changes no
\* bucket, no handle and no count
C9_NegativeScheduleIsNoOp ==
  (call.op = "schedule" /\ call.timepoint < 0)
    => /\ ~call.ok
       /\ timepoint_hash_map = pre.map
       /\ event_handle_list = pre.handles
       /\ \A t \in TimepointArgs :
            count_events(timepoint_hash_map, t) = count_events(pre.map, t)

\* a schedule() with a negative timepoint on a History that holds events
C9_Witness ==
  /\ call.op = "schedule"
  /\ call.timepoint < 0
  /\ pre.handles # <<>>

\* C10: unschedule(handle) on a valid handle runs the record's destroy func
\* once if it has one, lowers the count of the handle's timepoint by one (to 0
\* for the last record) and takes the handle out of the handle list
C10_Unschedule ==
  call.op = "unschedule"
    => LET eh == call.handle
           t == eh.timepoint
           evtentry == EntryOf(pre.map, eh)
       IN  /\ is_event_handle_valid(pre.map, eh)
           /\ destroy_calls =
                [pre.destroy_calls EXCEPT
                   ![evtentry.id] =
                     @ + (IF evtentry.user_event_destroy_func THEN 1 ELSE 0)]
           /\ count_events(timepoint_hash_map, t) = count_events(pre.map, t) - 1
           /\ (count_events(pre.map, t) = 1
                 => count_events(timepoint_hash_map, t) = 0)
           /\ eh \notin Range(event_handle_list)

\* the last record of a timepoint, one with a destroy func, was unscheduled
C10_Witness ==
  /\ call.op = "unschedule"
  /\ EntryOf(pre.map, call.handle).user_event_destroy_func
  /\ count_events(pre.map, call.handle.timepoint) = 1
  /\ event_handle_list # <<>>

\* the last call was unschedule_all with a range it accepts
UnscheduledRange ==
  /\ call.op = "unschedule_all"
  /\ call.start >= 0 /\ call.finish >= call.start

InCallRange(t) == call.start <= t /\ t <= call.finish

\* C11: unschedule_all(start, finish) removes exactly the handles whose
\* timepoint lies in start..finish, both ends included, returns their number
\* and leaves every event outside the range scheduled
C11_UnscheduleAllRange ==
  UnscheduledRange
    => /\ event_handle_list =
            SelectSeq(pre.handles, LAMBDA eh : ~InCallRange(eh.timepoint))
       /\ call.ret =
            Len(SelectSeq(pre.handles, LAMBDA eh : InCallRange(eh.timepoint)))
       /\ \A t \in Timepoints :
            IF InCallRange(t)
            THEN ~HASH_FIND_INT(timepoint_hash_map, t)
            ELSE /\ HASH_FIND_INT(timepoint_hash_map, t)
                      = HASH_FIND_INT(pre.map, t)
                 /\ HASH_FIND_INT(pre.map, t)
                      => timepoint_hash_map[t] = pre.map[t]

\* events at the finish timepoint were removed, one before the range stays
C11_Witness ==
  /\ UnscheduledRange
  /\ call.start = call.finish
  /\ HASH_FIND_INT(pre.map, call.finish)
  /\ call.ret >= 2
  /\ event_handle_list # <<>>


\* the payloads of the bucket of timepoint t of the map, in the promised
\* order: phase ascending, schedule order among equal phases
PayloadsInOrder(map, t) ==
  IF HASH_FIND_INT(map, t)
  THEN LET order == ByPhaseThenSchedule(Range(map[t]))
       IN  [n \in 1..Len(order) |->
              (CHOOSE e \in Range(map[t]) : e.id = order[n]).user_event]
  ELSE <<>>

\* C15: get_events(t, out) writes exactly count_events(t) payloads in the
\* order of the bucket (phase ascending, schedule order among equal phases),
\* returns that number and leaves the history unchanged
C15_GetEvents ==
  call.op = "get_events"
    => /\ call.ret = count_events(timepoint_hash_map, call.timepoint)
       /\ Len(call.user_eventv) = call.ret
       /\ call.user_eventv = PayloadsInOrder(timepoint_hash_map, call.timepoint)
       /\ timepoint_hash_map = pre.map
       /\ event_handle_list = pre.handles
       /\ destroy_calls = pre.destroy_calls

\* three payloads were written, of a bucket scheduled out of phase order
C15_Witness ==
  /\ call.op = "get_events"
  /\ call.ret = MaxEvents
  /\ \E m, n \in 1..MaxEvents :
       /\ m < n
       /\ call.user_eventv[m] > call.user_eventv[n]

\* C20: unschedule_all with a negative start, a negative finish or a finish
\* before the start returns 0 and changes nothing: no destroy func runs and
\* no entry, bucket or handle changes
C20_UnscheduleAllBadRange ==
  (/\ call.op = "unschedule_all"
   /\ (call.start < 0 \/ call.finish < 0 \/ call.finish < call.start))
    => /\ call.ret = 0
       /\ timepoint_hash_map = pre.map
       /\ event_handle_list = pre.handles
       /\ destroy_calls = pre.destroy_calls

\* a negative start with a finish that covers scheduled events
C20_Witness ==
  /\ call.op = "unschedule_all"
  /\ call.start < 0
  /\ call.finish >= 0
  /\ \E n \in 1..Len(event_handle_list) :
       event_handle_list[n].timepoint <= call.finish


\* C16: unschedule called with a handle that is not valid any more (consumed
\* by unschedule or unschedule_all) fails on the assert: no destroy func is
\* invoked, no entry is removed and no count changes
C16_ConsumedHandleFailsFast ==
  call.op = "unschedule_consumed"
    => /\ call.aborted
       /\ timepoint_hash_map = pre.map
       /\ event_handle_list = pre.handles
       /\ destroy_calls = pre.destroy_calls

\* the ids of the applicable entries scheduled at timepoint t
ApplicableIdsAt(t) == {e.id : e \in {x \in EntriesAt(t) : Applicable(x)}}

\* C12: the range of state_delta includes both ends: the records scheduled at
\* the finish timepoint are applied, and state_delta(t, t, state, 0) replays
\* exactly the records of timepoint t
C12_InclusiveRange ==
  Returned
    => /\ ApplicableIdsAt(call.finish) \subseteq Range(apply_log)
       /\ ApplicableIdsAt(call.start) \subseteq Range(apply_log)
       /\ call.start = call.finish
            => /\ Range(apply_log) = ApplicableIdsAt(call.finish)
               /\ call.max_threads = 0
                    => apply_log = PromisedOrder(call.finish, call.finish)

\* the call replayed the last timepoint alone, with events scheduled before it
C12_Witness ==
  /\ Returned
  /\ call.max_threads = 0
  /\ call.start = MaxTimepoint /\ call.finish = MaxTimepoint
  /\ call.ret >= 2
  /\ ApplicableIdsAt(0) # {}

\* C13: in sequential mode (max_threads = 0) a null state suppresses all
\* application: no apply func is invoked and state_delta returns 0
C13_NullStateSuppressesSequential ==
  (Returned /\ call.max_threads = 0 /\ call.state_null)
    => /\ apply_log = <<>>
       /\ call.ret = 0

\* the entries without an apply func scheduled at one of the timepoints
Markers ==
  {e \in UNION {EntriesAt(t) : t \in Timepoints} : ~e.user_event_apply_func}

\* C14: the value state_delta returns is the number of apply invocations made
\* and completed during the call, in either mode; the records scheduled
\* without an apply func are not among them
C14_ReturnCountsApplications ==
  (call.op = "state_delta" /\ call.returned)
    => /\ call.ret = Len(apply_log)
       /\ \A e \in Markers : e.id \notin Range(apply_log)

\* a threaded call returned after it passed by a marker and applied events
C14_Witness ==
  /\ Returned
  /\ call.max_threads > 0
  /\ call.ret >= 2
  /\ \E t \in call.start..call.finish :
       \E e \in EntriesAt(t) :
         ~e.user_event_apply_func /\ e.user_event # NULL

\* C17: state_delta returns only after every thread it created has ended and
\* was joined: when it has returned no thread of the call is left
C17_JoinedAtReturn ==
  (call.op = "state_delta" /\ call.returned)
    => /\ sd.pc = "idle"
       /\ InFlight = <<>>

\* a call with two threads running side by side has returned
C17_Witness ==
  /\ Returned
  /\ call.max_threads >= 2
  /\ call.ret >= 2
  /\ \E t \in call.start..call.finish, p \in Phases :
       Cardinality({e \in EntriesAt(t) : Applicable(e) /\ e.phase = p}) >= 2

\* C18: in threaded mode the timepoints are serialized: every thread created
\* for a timepoint has ended before a thread is created for a later one, and
\* no thread is left whenever the walk moves on to the next timepoint
C18_TimepointSerialization ==
  /\ sd.pc = "for" => InFlight = <<>>
  /\ sd.pc # "idle"
       => \A n \in 1..Len(InFlight) :
            /\ InFlight[n].timepoint = sd.i
            /\ \A t \in call.start..(sd.i - 1) :
                 \A id \in ApplicableIdsAt(t) :
                   /\ id \in Range(apply_log)
                   /\ id \notin InFlightIds

\* a thread of the second timepoint runs after events of the first
C18_Witness ==
  /\ sd.pc # "idle"
  /\ InFlight # <<>>
  /\ sd.i > call.start
  /\ ApplicableIdsAt(call.start) # {}

\* C19: a record that is to be dispatched while max_threads threads are in
\* flight waits for all of them, not for one: right after its dispatch it is
\* the only thread in flight, and the records dispatched before it have ended
C19_HardBarrierAtCap ==
  (/\ sd.pc = "foreach"
   /\ sd.thread_list_length >= call.max_threads)
    => /\ Len(InFlight) = 1
       /\ Len(apply_log) >= sd.evtcount - 1

\* the third record of a phase was dispatched with a cap of two threads
C19_Witness ==
  /\ sd.pc = "foreach"
  /\ call.max_threads = 2
  /\ sd.thread_list_length = 2
  /\ Len(InFlight) = 1
  /\ sd.evtcount = 3


\* the last call was state_delta with a range it rejects
RejectedRange ==
  /\ call.op = "state_delta"
  /\ (call.start < 0 \/ call.finish < 0 \/ call.finish < call.start)

\* C21: state_delta with a negative start, a negative finish or a finish
\* before the start returns 0 at once: no apply func is invoked and no thread
\* is created, in either mode
C21_StateDeltaBadRange ==
  RejectedRange
    => /\ call.returned
       /\ call.ret = 0
       /\ apply_log = <<>>
       /\ sd.pc = "idle"
       /\ InFlight = <<>>

\* a threaded call with a negative start over timepoints that hold events
C21_Witness ==
  /\ RejectedRange
  /\ call.start < 0
  /\ call.finish >= 0
  /\ call.max_threads > 0
  /\ \E t \in 0..call.finish : ApplicableIdsAt(t) # {}

\* C22: state_delta over a valid range in which no timepoint has an event
\* returns 0 and runs no apply func, for any max_threads
C22_EmptyRange ==
  (/\ call.op = "state_delta"
   /\ call.start >= 0 /\ call.finish >= call.start
   /\ \A t \in call.start..call.finish : EntriesAt(t) = {})
    => /\ apply_log = <<>>
       /\ InFlight = <<>>
       /\ call.ret = 0

\* a threaded call over an empty timepoint returned; an earlier one has events
C22_Witness ==
  /\ Returned
  /\ call.max_threads > 0
  /\ call.start > 0
  /\ \A t \in call.start..call.finish : EntriesAt(t) = {}
  /\ ApplicableIdsAt(0) # {}


\* the marker entries of a map: the entries scheduled without an apply func
MarkersOf(map) == {e \in LiveEntries(map) : ~e.user_event_apply_func}

\* C23: a record scheduled without an apply func is counted by count_events
\* and returned by get_events, is never applied nor counted by state_delta,
\* and has its destroy func run by unschedule, unschedule_all and teardown
C23_Markers ==
  /\ call.op = "count_events"
       => call.ret = Cardinality(EntriesAt(call.timepoint))
  /\ call.op = "get_events"
       => \A m \in MarkersOf(timepoint_hash_map) \cap EntriesAt(call.timepoint) :
            m.user_event \in Range(call.user_eventv)
  /\ call.op = "state_delta"
       => /\ \A m \in MarkersOf(timepoint_hash_map) :
               /\ m.id \notin Range(apply_log)
               /\ m.id \notin InFlightIds
          /\ call.returned
               => call.ret =
                    Cardinality(UNION {ApplicableIdsAt(t) :
                                         t \in call.start..call.finish})
  /\ call.op \in {"unschedule", "unschedule_all", "destroy"}
       => \A m \in MarkersOf(pre.map) \ MarkersOf(timepoint_hash_map) :
            m.user_event_destroy_func
              => destroy_calls[m.id] = pre.destroy_calls[m.id] + 1

\* unschedule_all has removed a marker together with a full event
C23_Witness ==
  /\ call.op = "unschedule_all"
  /\ \E m \in MarkersOf(pre.map) \ MarkersOf(timepoint_hash_map) :
       destroy_calls[m.id] = 1
  /\ \E e \in LiveEntries(pre.map) \ LiveEntries(timepoint_hash_map) :
       e.user_event_apply_func


\* C24: if every apply func that was started returns, a state_delta call over
\* any range returns; the threads it waits for are threads it has created for
\* records of the range
C24_ReplayTerminates ==
  /\ [](\A n \in 1..Len(InFlight) :
          /\ InFlight[n].timepoint \in call.start..call.finish
          /\ InFlight[n].id \in ApplicableIdsAt(InFlight[n].timepoint))
  /\ (call.op = "state_delta" /\ ~call.returned)
       ~> (call.op = "state_delta" /\ call.returned)

\* the caller waits in a join for a thread that is still running
C24_Witness ==
  /\ sd.pc \in {"drain", "join"}
  /\ InFlight # <<>>
  /\ ~Head(InFlight).done
  /\ call.finish > call.start


\* C25: count_events and get_events return 0, and get_events writes nothing,
\* for a negative timepoint and for a timepoint at which nothing is scheduled,
\* a timepoint whose events were all removed included
C25_NothingScheduled ==
  (/\ call.op \in {"count_events", "get_events"}
   /\ (call.timepoint < 0 \/ EntriesAt(call.timepoint) = {}))
    => /\ call.ret = 0
       /\ call.op = "get_events" => call.user_eventv = <<>>

\* get_events at a timepoint whose events have all been removed
C25_Witness ==
  /\ call.op = "get_events"
  /\ call.timepoint >= 0
  /\ sched_count[call.timepoint] >= 2
  /\ removed_count[call.timepoint] = sched_count[call.timepoint]

\* the ids of the entries of a bucket, in list order
BucketIds(list) == [n \in 1..Len(list) |-> list[n].id]

\* C26: in every state reached by schedule, unschedule and unschedule_all each
\* bucket is sorted by phase ascending, and entries of equal phase are in the
\* order of their schedule() calls
C26_BucketOrder ==
  \A t \in DOMAIN timepoint_hash_map :
    BucketIds(timepoint_hash_map[t])
      = ByPhaseThenSchedule(Range(timepoint_hash_map[t]))

\* two entries of one phase behind an entry of a lower phase scheduled last
C26_Witness ==
  \E t \in DOMAIN timepoint_hash_map :
    LET list == timepoint_hash_map[t]
    IN  /\ Len(list) = 3
        /\ list[1].id = 3
        /\ list[2].phase = list[3].phase
        /\ list[1].phase < list[2].phase

\* C27: between public operations every timepoint of the map has at least one
\* entry: a bucket exists exactly while schedules at its timepoint outnumber
\* the removals there
C27_NoEmptyBucket ==
  alive =>
    \A t \in Timepoints :
      /\ HASH_FIND_INT(timepoint_hash_map, t)
           => timepoint_hash_map[t] # <<>>
      /\ HASH_FIND_INT(timepoint_hash_map, t)
           <=> sched_count[t] > removed_count[t]

\* a bucket was evicted with its last entry while another bucket stays
C27_Witness ==
  /\ alive
  /\ \E t, u \in Timepoints :
       /\ sched_count[t] >= 1
       /\ removed_count[t] = sched_count[t]
       /\ ~HASH_FIND_INT(timepoint_hash_map, t)
       /\ HASH_FIND_INT(timepoint_hash_map, u)

\* C29: in every state reached by schedule, unschedule and unschedule_all the
\* handles of the handle list and the entries of the buckets correspond one
\* to one: each handle names an entry of the bucket of its timepoint, and
\* each entry is named by exactly one handle
C29_RegistryCorrespondence ==
  alive =>
    /\ \A n \in 1..Len(event_handle_list) :
         is_event_handle_valid(timepoint_hash_map, event_handle_list[n])
    /\ \A t \in DOMAIN timepoint_hash_map :
         \A e \in Range(timepoint_hash_map[t]) :
           Cardinality({n \in 1..Len(event_handle_list) :
                          /\ event_handle_list[n].event_list_elem = e.addr
                          /\ event_handle_list[n].timepoint = t}) = 1
    /\ Len(event_handle_list)
         = Cardinality(LiveEntries(timepoint_hash_map))

\* handles left after removals, at two timepoints
C29_Witness ==
  /\ alive
  /\ Len(event_handle_list) = 2
  /\ event_handle_list[1].timepoint # event_handle_list[2].timepoint
  /\ consumed # {}


\* the ids of the applicable entries of the range of the last call
ApplicableIdsInRange ==
  UNION {ApplicableIdsAt(t) : t \in call.start..call.finish}

\* C28: with max_threads > 0 a null state is not guarded against: every
\* applicable record of the range is dispatched and counted all the same
C28_NullStateThreaded ==
  (Returned /\ call.max_threads > 0 /\ call.state_null)
    => /\ Range(apply_log) = ApplicableIdsInRange
       /\ call.ret = Cardinality(ApplicableIdsInRange)

\* a threaded call without state has applied events at both timepoints
C28_Witness ==
  /\ Returned
  /\ call.max_threads > 0
  /\ call.state_null
  /\ call.start < call.finish
  /\ ApplicableIdsAt(call.start) # {}
  /\ ApplicableIdsAt(call.finish) # {}
  /\ call.ret >= 2

\* C30: state_delta, count_events and get_events leave the buckets, their
\* order and the handle list as they are, so a sequential state_delta that
\* follows a sequential state_delta over the same range applies the same
\* records in the same order and returns the same count
C30_ReplayDoesNotConsume ==
  /\ call.op \in {"state_delta", "count_events", "get_events"}
       => /\ timepoint_hash_map = pre.map
          /\ event_handle_list = pre.handles
          /\ destroy_calls = pre.destroy_calls
  /\ (call.op = "state_delta" /\ call.returned /\ pre.replay.valid)
       => /\ apply_log = pre.replay.log
          /\ call.ret = pre.replay.ret

\* the second of two sequential calls over both timepoints has returned
C30_Witness ==
  /\ call.op = "state_delta"
  /\ call.returned
  /\ pre.replay.valid
  /\ call.start < call.finish
  /\ Len(pre.replay.log) >= 2
  /\ pre.replay.log[1] > pre.replay.log[2]


\* the ids of the threads in flight, in the order of their creation
InFlightSeq == [n \in 1..Len(InFlight) |-> InFlight[n].id]

\* the threads in flight whose apply func has not returned yet
RunningSeq == SelectSeq(InFlight, LAMBDA th : ~th.done)

\* s is a prefix of t
IsPrefix(s, t) == Len(s) <= Len(t) /\ s = SubSeq(t, 1, Len(s))

\* C31: with max_threads = 1 at most one apply thread exists at any time, the
\* threads start and finish in the order in which a sequential replay applies
\* the same records, and the call returns the same count
C31_OneThreadRefinesSequential ==
  (/\ call.op = "state_delta"
   /\ call.start >= 0 /\ call.finish >= call.start
   /\ call.max_threads = 1)
    => /\ Len(InFlight) <= 1
       /\ IsPrefix(apply_log \o [n \in 1..Len(RunningSeq) |-> RunningSeq[n].id],
                   PromisedOrder(call.start, call.finish))
       /\ call.returned
            => /\ apply_log = PromisedOrder(call.start, call.finish)
               /\ call.ret = Len(PromisedOrder(call.start, call.finish))

\* three records of both phases and both timepoints were replayed one by one
C31_Witness ==
  /\ Returned
  /\ call.max_threads = 1
  /\ call.start < call.finish
  /\ Len(apply_log) = 3
  /\ apply_log # <<1, 2, 3>>

\* C32: for every max_threads > 0 the threads are started in the stored
\* order: timepoint ascending, phase ascending, schedule order among equal
\* phases; only the order in which threads in flight together end is free
C32_DispatchOrder ==
  (/\ call.op = "state_delta"
   /\ call.start >= 0 /\ call.finish >= call.start
   /\ call.max_threads > 0
   /\ sd.pc # "idle")
    => LET order == PromisedOrder(call.start, call.finish)
       IN  /\ sd.evtcount <= Len(order)
           /\ Len(InFlight) <= sd.evtcount
           /\ InFlightSeq = SubSeq(order, sd.evtcount - Len(InFlight) + 1,
                                   sd.evtcount)
           /\ Range(apply_log) \cup InFlightIds
                = {order[n] : n \in 1..sd.evtcount}

\* two threads in flight together have ended against their order of creation
C32_Witness ==
  /\ Returned
  /\ call.max_threads > 1
  /\ Len(apply_log) >= 2
  /\ apply_log # PromisedOrder(call.start, call.finish)

\* the entries scheduled with a null payload
NullPayloads ==
  {e \in LiveEntries(timepoint_hash_map) : e.user_event = NULL}

\* C33: a record scheduled with a null payload is never applied nor counted by
\* state_delta, in either mode, whatever its apply func; count_events counts it
C33_NullPayload ==
  /\ call.op = "state_delta"
       => /\ \A e \in NullPayloads :
               /\ e.id \notin Range(apply_log)
               /\ e.id \notin InFlightIds
          /\ Returned => call.ret = Cardinality(ApplicableIdsInRange)
  /\ \A t \in Timepoints :
       count_events(timepoint_hash_map, t) = Cardinality(EntriesAt(t))

\* a threaded call has passed by a null payload that has an apply func and
\* has applied the event scheduled next to it
C33_Witness ==
  /\ Returned
  /\ call.max_threads > 0
  /\ call.ret >= 1
  /\ \E t \in call.start..call.finish :
       /\ \E e \in EntriesAt(t) :
            e.user_event = NULL /\ e.user_event_apply_func
       /\ ApplicableIdsAt(t) # {}
       /\ count_events(timepoint_hash_map, t) >= 2

\* C34: a negative max_threads is treated as sequential mode: no thread is
\* created, the records are applied in stored order and the count is that of
\* max_threads = 0
C34_NegativeMaxThreads ==
  (call.op = "state_delta" /\ call.max_threads < 0)
    => /\ InFlight = <<>>
       /\ Returned
            => /\ apply_log = PromisedOrder(call.start, call.finish)
               /\ call.ret = Len(PromisedOrder(call.start, call.finish))

\* a call with a negative max_threads has applied events out of schedule order
C34_Witness ==
  /\ Returned
  /\ call.max_threads < 0
  /\ Len(apply_log) >= 2
  /\ apply_log[1] > apply_log[2]


\* C35: unschedule(handle) affects only its own record: the count of every
\* other timepoint is unchanged, the entries left in the bucket keep their
\* order, and every other handle stays valid and names the same entry
C35_UnscheduleFrame ==
  call.op = "unschedule"
    => /\ \A t \in Timepoints :
            t # call.handle.timepoint
              => count_events(timepoint_hash_map, t) = count_events(pre.map, t)
       /\ LET before == BucketIds(pre.map[call.handle.timepoint])
              after == IF HASH_FIND_INT(timepoint_hash_map, call.handle.timepoint)
                       THEN BucketIds(timepoint_hash_map[call.handle.timepoint])
                       ELSE <<>>
          IN  after = SelectSeq(before, LAMBDA id : id # call.id)
       /\ \A n \in 1..Len(pre.handles) :
            pre.handles[n] # call.handle
              => /\ pre.handles[n] \in Range(event_handle_list)
                 /\ is_event_handle_valid(timepoint_hash_map, pre.handles[n])
                 /\ EntryOf(timepoint_hash_map, pre.handles[n])
                      = EntryOf(pre.map, pre.handles[n])

\* the middle entry of a bucket of three was unscheduled
C35_Witness ==
  /\ call.op = "unschedule"
  /\ Len(pre.map[call.handle.timepoint]) = 3
  /\ pre.map[call.handle.timepoint][2].id = call.id

\* C36: a handle consumed by unschedule or unschedule_all is rejected by the
\* validity check in every later state, also after schedule() calls at its
\* timepoint whose entry may get the storage of the removed one
C36_ConsumedStaysInvalid ==
  alive =>
    \A c \in consumed :
      ~is_event_handle_valid(timepoint_hash_map, c)


\* the ids of the entries at timepoint t that forwards applies to a state, in
\* the order of their schedule() calls
RECURSIVE InsertionOrder(_)
InsertionOrder(ids) ==
  IF ids = {} THEN <<>>
  ELSE LET first == CHOOSE x \in ids : \A y \in ids : x <= y
       IN  <<first>> \o InsertionOrder(ids \ {first})

\* C37 (earlier revision): the current timepoint of a fresh History is the
\* invalid -1; each forwards(h, state) raises it by exactly 1 and applies
\* exactly the applicable records of the new current timepoint, in insertion
\* order, and no other record, so the first forwards replays timepoint 0
C37_Forwards ==
  /\ call.op = "create"
       => h_timepoint = -1 /\ ~rwn_history_is_timepoint_valid(h_timepoint)
  /\ call.op = "forwards"
       => /\ h_timepoint = call.from + 1
          /\ call.from = -1 => h_timepoint = 0
          /\ ~call.state_null
               => apply_log = InsertionOrder(ApplicableIdsAt(h_timepoint))
          /\ call.state_null => apply_log = <<>>

\* the first forwards has applied two of the events of timepoint 0, with
\* another event scheduled at timepoint 1
C37_Witness ==
  /\ call.op = "forwards"
  /\ call.from = -1
  /\ ~call.state_null
  /\ Len(apply_log) = 2
  /\ EntriesAt(1) # {}

\* C38 (earlier revision): backwards(h) lowers the current timepoint by
\* exactly 1, invokes no apply or destroy func and changes no scheduled event;
\* a forwards followed by a backwards restores the current timepoint
C38_Backwards ==
  call.op = "backwards"
    => /\ h_timepoint = call.from - 1
       /\ apply_log = <<>>
       /\ destroy_calls = pre.destroy_calls
       /\ timepoint_hash_map = pre.map
       /\ event_handle_list = pre.handles
       /\ call.after_forwards => h_timepoint = call.before

\* a backwards right after the forwards that has replayed timepoint 0
C38_Witness ==
  /\ call.op = "backwards"
  /\ call.after_forwards
  /\ call.before = -1
  /\ h_timepoint = -1
  /\ ApplicableIdsAt(0) # {}

=============================================================================
